---- MODULE Spec2Model ----
(***************************************************************************)
(* Model of the retrieval core of the multi-user document search system:   *)
(*   document_processor.py  (DocumentIndex: add_document, search)          *)
(*   access_control.py      (USER_DOCUMENT_ACCESS and its lookups)         *)
(*   conversational_qa.py   (ConversationManager, ConversationalQA)        *)
(*                                                                         *)
(* Strings the code inspects character by character (the query text and    *)
(* the company tokens) are sequences of one-character strings.  Document   *)
(* labels, user e-mails and chunk texts are atomic strings.  Embedding     *)
(* vectors are integer pairs with integral norms, so that the cosine can   *)
(* be computed exactly; similarities are fixed-point numbers in units of   *)
(* 1/Scale.  Store indices keep the 0-based values of the Python code.     *)
(***************************************************************************)
EXTENDS Integers, Sequences, FiniteSets, TLC

(***************************************************************************)
(* Bounds of the model.                                                    *)
(***************************************************************************)
MaxChunks == 3
MaxTopK == 2
MaxTurns == 2

\* Threads that call add_to_conversation at the same time.
MaxThreads == 2

(***************************************************************************)
(* Generic helpers: Python list and string primitives.                     *)
(***************************************************************************)
Min(a, b) == IF a <= b THEN a ELSE b

Max(a, b) == IF a >= b THEN a ELSE b

Range(s) == {s[i] : i \in 1..Len(s)}

Reverse(s) == [i \in 1..Len(s) |-> s[Len(s) + 1 - i]]

\* s[:k]
SliceTo(s, k) ==
    IF k >= 0 THEN SubSeq(s, 1, Min(k, Len(s)))
    ELSE SubSeq(s, 1, Max(0, Len(s) + k))

\* s[start:]
SliceFrom(s, start) ==
    LET b == IF start < 0 THEN Max(0, Len(s) + start) ELSE Min(start, Len(s))
    IN  SubSeq(s, b + 1, Len(s))

UpperChars ==
    << "A", "B", "C", "D", "E", "F", "G", "H", "I", "J", "K", "L", "M",
       "N", "O", "P", "Q", "R", "S", "T", "U", "V", "W", "X", "Y", "Z" >>

LowerChars ==
    << "a", "b", "c", "d", "e", "f", "g", "h", "i", "j", "k", "l", "m",
       "n", "o", "p", "q", "r", "s", "t", "u", "v", "w", "x", "y", "z" >>

LowerChar(c) ==
    IF \E i \in 1..26 : UpperChars[i] = c
    THEN LowerChars[CHOOSE i \in 1..26 : UpperChars[i] = c]
    ELSE c

UpperChar(c) ==
    IF \E i \in 1..26 : LowerChars[i] = c
    THEN UpperChars[CHOOSE i \in 1..26 : LowerChars[i] = c]
    ELSE c

\* str.lower()
str_lower(s) == [i \in 1..Len(s) |-> LowerChar(s[i])]

\* str.upper()
str_upper(s) == [i \in 1..Len(s) |-> UpperChar(s[i])]

\* sub in s
str_contains(sub, s) ==
    \E i \in 0..(Len(s) - Len(sub)) : \A j \in 1..Len(sub) : s[i + j] = sub[j]

(***************************************************************************)
(* access_control.py                                                       *)
(***************************************************************************)
DocA == "company_a_earnings.pdf"

DocB == "company_b_earnings.pdf"

DocC == "company_c_earnings.pdf"

DocD == "company_d_earnings.pdf"

DocE == "company_e_earnings.pdf"

USER_DOCUMENT_ACCESS ==
    [u \in {"alice@email.com", "bob@email.com", "charlie@email.com",
            "aakash@email.com", "test1@email.com", "test2@email.com"} |->
        CASE u = "alice@email.com"   -> << DocA >>
          [] u = "bob@email.com"     -> << DocB, DocC >>
          [] u = "charlie@email.com" -> << DocD, DocE >>
          [] u = "aakash@email.com"  -> << DocA >>
          [] u = "test1@email.com"   -> << DocB, DocC >>
          [] u = "test2@email.com"   -> << DocA, DocB >>]

get_user_documents(user_email) ==
    IF user_email \in DOMAIN USER_DOCUMENT_ACCESS
    THEN USER_DOCUMENT_ACCESS[user_email]
    ELSE << >>

get_allowed_documents_set(user_email) == Range(get_user_documents(user_email))

(***************************************************************************)
(* The embedding model (SentenceTransformer.encode) is a deterministic     *)
(* text -> vector function.  Chunk texts are atomic; each has a length in  *)
(* characters and a vector.                                                *)
(***************************************************************************)
Scale == 100 * 100

\* Marker for a floating-point nan; numpy's sort places nan after every number.
NaN == 10 * Scale

ChunkTexts == {"rev_a", "cost_a", "hdr", "rev_b", "risk_b", "rev_c", "blank_b"}

TextLen ==
    [t \in ChunkTexts |->
        CASE t = "rev_a"  -> 120
          [] t = "cost_a" -> 600
          [] t = "hdr"    -> 12
          [] t = "rev_b"  -> 500
          [] t = "risk_b" -> 80
          [] t = "rev_c"  -> 60
          [] t = "blank_b" -> 70]

TextVec ==
    [t \in ChunkTexts |->
        CASE t = "rev_a"  -> << 5, 0 >>
          [] t = "cost_a" -> << 5, 12 >>
          [] t = "hdr"    -> << 0, 5 >>
          [] t = "rev_b"  -> << 5, 0 >>
          [] t = "risk_b" -> << 3, 4 >>
          [] t = "rev_c"  -> << 0, 5 >>
          [] t = "blank_b" -> << 0, 0 >>]

Dot(v, w) == v[1] * w[1] + v[2] * w[2]

\* np.linalg.norm of an integer pair with an integral norm
Norm(v) == CHOOSE n \in 0..(Dot(v, v)) : n * n = Dot(v, v)

\* np.dot(a, q) / (norm(a) * norm(q)); a zero norm gives 0/0 = nan
Cosine(v, w) ==
    LET d == Norm(v) * Norm(w)
    IN  IF d = 0 THEN NaN ELSE (Scale * Dot(v, w)) \div d

(***************************************************************************)
(* Query texts.  A text handed to search is the raw query plus the context *)
(* lines fused into it (no lines: the raw query itself).                   *)
(***************************************************************************)
QProfit == << "p", "r", "o", "f", "i", "t" >>

QCompA == << "C", "o", "m", "p", "a", "n", "y", " ", "A" >>

QBoth == << "C", "O", "M", "P", "A", "N", "Y", " ", "A", "+",
            "c", "o", "m", "p", "a", "n", "y", "_", "b" >>

Queries == {QProfit, QCompA, QBoth}

\* A query text the embedding model would map to the zero vector.
QZero == << "?" >>

QueryVec ==
    [q \in Queries \cup {QZero} |->
        CASE q = QProfit -> << 5, 0 >>
          [] q = QCompA  -> << 5, 12 >>
          [] q = QBoth   -> << 0, -5 >>
          [] q = QZero   -> << 0, 0 >>]

\* The vectors the embedding model produces for the texts of the model.
Vectors == {TextVec[t] : t \in ChunkTexts} \cup {QueryVec[q] : q \in DOMAIN QueryVec}

\* The cosine of every pair of vectors, evaluated once.
CosineOf == [v \in Vectors |-> [w \in Vectors |-> Cosine(v, w)]]

RawText(q) == [query |-> q, context |-> << >>]

\* model.encode([query])[0]: deterministic; a fused text takes the vector of
\* the oldest previous question it quotes, a raw text its own vector.
encode_query(text) ==
    IF text.context = << >> THEN QueryVec[text.query]
    ELSE QueryVec[text.context[1].text]

\* model.encode(texts) for chunk texts
create_embeddings(text_chunks) ==
    [i \in 1..Len(text_chunks) |-> TextVec[text_chunks[i].text]]

(***************************************************************************)
(* PDF sources.  A source is a path, whether open() succeeds, and its      *)
(* pages; a page either raises on extract_text() or yields paragraphs.     *)
(***************************************************************************)
Page(paras) == [raises |-> FALSE, paragraphs |-> paras]

BadPage == [raises |-> TRUE, paragraphs |-> << >>]

Pdf(base, ok, pgs) ==
    [path |-> [dir |-> "documents", base |-> base], readable |-> ok, pages |-> pgs]

PdfFiles ==
    { Pdf(DocA, TRUE, << Page(<< "rev_a", "hdr" >>), Page(<< "cost_a" >>) >>),
      Pdf(DocB, TRUE, << Page(<< "rev_b" >>), Page(<< >>), Page(<< "risk_b" >>) >>),
      Pdf(DocC, TRUE, << Page(<< "rev_c" >>), BadPage >>),
      Pdf(DocD, FALSE, << >>) }

\* A source whose only paragraph the embedding model would map to the zero
\* vector.
PdfZero == Pdf(DocB, TRUE, << Page(<< "blank_b" >>) >>)

\* os.path.basename
basename(path) == path.base

\* Paragraphs of one page that are longer than 50 characters, as chunks
\* numbered from chunk_id on.
RECURSIVE page_chunks(_, _, _, _)
page_chunks(paras, page_num, chunk_id, doc) ==
    IF paras = << >> THEN << >>
    ELSE IF TextLen[Head(paras)] > 50
         THEN << [text |-> Head(paras), page |-> page_num,
                  chunk_id |-> chunk_id, document |-> doc] >>
              \o page_chunks(Tail(paras), page_num, chunk_id + 1, doc)
         ELSE page_chunks(Tail(paras), page_num, chunk_id, doc)

\* The page loop of extract_text_from_pdf: an exception ends the loop and the
\* chunks collected so far are returned.
RECURSIVE extract_pages(_, _, _, _)
extract_pages(pages, page_num, text_chunks, doc) ==
    IF pages = << >> \/ Head(pages).raises THEN text_chunks
    ELSE extract_pages(Tail(pages), page_num + 1,
                       text_chunks \o page_chunks(Head(pages).paragraphs, page_num,
                                                  Len(text_chunks), doc),
                       doc)

extract_text_from_pdf(pdf) ==
    IF ~pdf.readable THEN << >>
    ELSE extract_pages(pdf.pages, 1, << >>, basename(pdf.path))

(***************************************************************************)
(* State.                                                                  *)
(***************************************************************************)
VARIABLES
    chunks,         \* DocumentIndex.chunks
    embeddings,     \* DocumentIndex.embeddings (None or the rows)
    document_map,   \* DocumentIndex.document_map
    conversations,  \* ConversationManager.conversations
    faulty_index,   \* the index injected into ConversationalQA ignores the filter
    stub_index,     \* the injected index finds nothing for a text with fused context
    appenders,      \* threads inside add_to_conversation: position and locals
    ingest,         \* a thread inside add_document: position and locals
    embedding_model,\* the module global _embedding_model: 0 is None, else the instance
    models_built,   \* how many times SentenceTransformer(...) was constructed
    loaders,        \* threads inside get_embedding_model: position and locals
    lastOp,         \* the operation that ran last
    args,           \* its arguments
    result,         \* its return value
    searches        \* the retrievals the last answer_query performed

vars == << chunks, embeddings, document_map, conversations, faulty_index,
           stub_index, appenders, ingest, embedding_model, models_built, loaders,
           lastOp, args, result, searches >>

indexVars == << chunks, embeddings, document_map >>

\* How the objects are wired and which threads are inside an operation.
envVars == << faulty_index, stub_index, appenders, ingest,
             embedding_model, models_built, loaders >>

\* get_embedding_model() run without interruption: the first call constructs
\* the model and caches it in the global, later calls return the cached one.
get_embedding_model ==
    /\ embedding_model' =
          IF embedding_model = 0 THEN models_built + 1 ELSE embedding_model
    /\ models_built' =
          IF embedding_model = 0 THEN models_built + 1 ELSE models_built

EmbNone == [none |-> TRUE, rows |-> << >>]

\* No thread is inside add_document.
NoIngest == [pc |-> "idle", pdf |-> << >>, text_chunks |-> << >>, start_idx |-> 0]

NoFilter == [none |-> TRUE, docs |-> {}]

Filter(F) == [none |-> FALSE, docs |-> F]

(***************************************************************************)
(* DocumentIndex.search                                                    *)
(***************************************************************************)
similarities(text) ==
    [i \in 1..Len(embeddings.rows) |-> CosineOf[embeddings.rows[i]][encode_query(text)]]

\* The permutations of 1..n, for every length an array of the model can have.
IndexOrders ==
    [n \in 0..MaxChunks |->
        { p \in [1..n -> 1..n] : \A i, j \in 1..n : i # j => p[i] # p[j] }]

\* np.argsort(a): the index orders that sort a ascending.  The default kind
\* is not stable, so equal keys may come out in any order.
argsort(a) ==
    { p \in IndexOrders[Len(a)] :
        \A i \in 1..(Len(a) - 1) : a[p[i]] <= a[p[i + 1]] }

\* The 0-based indices of the chunks whose document is allowed, in store order.
RECURSIVE filtered_indices_from(_, _)
filtered_indices_from(idx, allowed_documents) ==
    IF idx >= Len(chunks) THEN << >>
    ELSE (IF chunks[idx + 1].document \in allowed_documents
          THEN << idx >> ELSE << >>)
         \o filtered_indices_from(idx + 1, allowed_documents)

\* Variant of filtered_indices: the membership test is lost, every chunk passes.
filtered_indices_unchecked(allowed_documents) ==
    [i \in 1..Len(chunks) |-> i - 1]

filtered_indices(allowed_documents) == filtered_indices_from(0, allowed_documents)

build_results(top_indices, sims) ==
    [i \in 1..Len(top_indices) |->
        [text        |-> chunks[top_indices[i] + 1].text,
         page        |-> chunks[top_indices[i] + 1].page,
         chunk_id    |-> chunks[top_indices[i] + 1].chunk_id,
         document    |-> chunks[top_indices[i] + 1].document,
         similarity  |-> sims[top_indices[i] + 1],
         chunk_index |-> top_indices[i]]]

\* Variant of top_indices_filtered: rank all chunks, cut to top_k, then filter.
top_indices_truncate_then_filter(sims, allowed_documents, top_k) ==
    LET Allowed(idx) == chunks[idx + 1].document \in allowed_documents
    IN  { SelectSeq([i \in 1..Len(SliceTo(p, top_k)) |-> SliceTo(Reverse(p), top_k)[i] - 1],
                    Allowed) :
            p \in argsort(sims) }

\* filtered_indices[np.argsort(filtered_similarities)[::-1][:top_k]]
top_indices_filtered(sims, allowed_documents, top_k) ==
    LET fi == filtered_indices(allowed_documents)
        fs == [i \in 1..Len(fi) |-> sims[fi[i] + 1]]
    IN  { [i \in 1..Len(SliceTo(p, top_k)) |-> fi[SliceTo(Reverse(p), top_k)[i]]] :
            p \in argsort(fs) }

\* np.argsort(similarities)[::-1][:top_k]
top_indices_all(sims, top_k) ==
    { [i \in 1..Len(SliceTo(p, top_k)) |-> SliceTo(Reverse(p), top_k)[i] - 1] :
        p \in argsort(sims) }

\* Variant of search: the filter is tested for truth ("if allowed_documents:"),
\* so an empty set is taken for no restriction.
search_truthy_filter(text, top_k, allowed) ==
    IF chunks = << >> \/ embeddings.none THEN { << >> }
    ELSE LET sims == similarities(text)
         IN  IF ~allowed.none /\ allowed.docs # {}
             THEN IF filtered_indices(allowed.docs) = << >> THEN { << >> }
                  ELSE { build_results(top, sims) :
                           top \in top_indices_filtered(sims, allowed.docs, top_k) }
             ELSE { build_results(top, sims) : top \in top_indices_all(sims, top_k) }

\* Variant of search: results that are not positively similar are dropped.
search_positive_only(text, top_k, allowed) ==
    LET Positive(r) == r.similarity > 0
    IN  IF chunks = << >> \/ embeddings.none THEN { << >> }
        ELSE IF ~allowed.none /\ Cardinality(allowed.docs) = 0 THEN { << >> }
        ELSE LET sims == similarities(text)
             IN  IF ~allowed.none
                 THEN IF filtered_indices(allowed.docs) = << >> THEN { << >> }
                      ELSE { SelectSeq(build_results(top, sims), Positive) :
                               top \in top_indices_filtered(sims, allowed.docs, top_k) }
                 ELSE { SelectSeq(build_results(top, sims), Positive) :
                          top \in top_indices_all(sims, top_k) }

\* The set of lists search(query, top_k, allowed_documents) can return.
search(text, top_k, allowed) ==
    IF chunks = << >> \/ embeddings.none THEN { << >> }
    ELSE IF ~allowed.none /\ Cardinality(allowed.docs) = 0 THEN { << >> }
    ELSE LET sims == similarities(text)
         IN  IF ~allowed.none
             THEN IF filtered_indices(allowed.docs) = << >> THEN { << >> }
                  ELSE { build_results(top, sims) :
                           top \in top_indices_filtered(sims, allowed.docs, top_k) }
             ELSE { build_results(top, sims) : top \in top_indices_all(sims, top_k) }

(***************************************************************************)
(* DocumentIndex.add_document                                              *)
(***************************************************************************)
\* Variant of add_document_index: the map records positions within the
\* document instead of positions in the store.
add_document_index_local(pdf, text_chunks) ==
    LET doc_name == basename(pdf.path)
        new_idx  == [i \in 1..Len(text_chunks) |-> i - 1]
    IN  /\ chunks' = chunks \o text_chunks
        /\ embeddings' =
             IF embeddings.none
             THEN [none |-> FALSE, rows |-> create_embeddings(text_chunks)]
             ELSE [none |-> FALSE,
                   rows |-> embeddings.rows \o create_embeddings(text_chunks)]
        /\ document_map' =
             [d \in DOMAIN document_map \cup {doc_name} |->
                 (IF d \in DOMAIN document_map THEN document_map[d] ELSE << >>)
                 \o (IF d = doc_name THEN new_idx ELSE << >>)]

\* self.chunks.extend, self.embeddings = ... / np.vstack, self.document_map[...]
add_document_index(pdf, text_chunks) ==
    LET start_idx == Len(chunks)
        doc_name  == basename(pdf.path)
        new_idx   == [i \in 1..Len(text_chunks) |-> start_idx + i - 1]
    IN  /\ chunks' = chunks \o text_chunks
        /\ embeddings' =
             IF embeddings.none
             THEN [none |-> FALSE, rows |-> create_embeddings(text_chunks)]
             ELSE [none |-> FALSE,
                   rows |-> embeddings.rows \o create_embeddings(text_chunks)]
        /\ document_map' =
             [d \in DOMAIN document_map \cup {doc_name} |->
                 (IF d \in DOMAIN document_map THEN document_map[d] ELSE << >>)
                 \o (IF d = doc_name THEN new_idx ELSE << >>)]

AddDocument ==
    \E pdf \in PdfFiles :
        LET text_chunks == extract_text_from_pdf(pdf)
        IN  /\ Len(chunks) + Len(text_chunks) <= MaxChunks
            /\ IF text_chunks = << >>
               THEN UNCHANGED << indexVars, embedding_model, models_built >>
               ELSE get_embedding_model /\ add_document_index(pdf, text_chunks)
            /\ lastOp' = "add_document"
            /\ args' = [pdf |-> pdf]
            /\ result' = << >>
            /\ searches' = << >>
            /\ UNCHANGED << conversations, faulty_index, stub_index, appenders,
                            ingest, loaders >>

(***************************************************************************)
(* A direct call of DocumentIndex.search.                                  *)
(***************************************************************************)
DocLabels == {DocA, DocB, DocC}

Search ==
    \E q \in Queries, top_k \in 0..MaxTopK,
       allowed \in {NoFilter} \cup {Filter(F) : F \in SUBSET DocLabels} :
        \E res \in search(RawText(q), top_k, allowed) :
            /\ lastOp' = "search"
            /\ args' = [text |-> RawText(q), top_k |-> top_k, allowed |-> allowed]
            /\ result' = res
            /\ searches' = << >>
            /\ UNCHANGED << indexVars, conversations, envVars >>

(***************************************************************************)
(* Answers.  An answer string is represented by the template it was built  *)
(* from and the values substituted into it.                                *)
(***************************************************************************)
MIN_SIMILARITY_THRESHOLD == (40 * Scale) \div 100

\* f"{x:.2f}": x rounded to hundredths
format_2f(x) == (x + (Scale \div 200)) \div (Scale \div 100)

\* x >= y on floats: false when x is nan
float_ge(x, y) == x # NaN /\ x >= y

Answer(kind, parts, truncated, mentions, docs, threshold) ==
    [kind |-> kind, parts |-> parts, truncated |-> truncated,
     mentions |-> mentions, docs |-> docs, threshold |-> threshold]

RefusalAnswer(mentions, docs) == Answer("refusal", << >>, FALSE, mentions, docs, 0)

BelowThresholdAnswer(docs) ==
    Answer("below_threshold", << >>, FALSE, << >>, docs,
           format_2f(MIN_SIMILARITY_THRESHOLD))

NotFoundAnswer == Answer("not_found", << >>, FALSE, << >>, {}, 0)

RECURSIVE SumLen(_)
SumLen(parts) ==
    IF parts = << >> THEN 0 ELSE TextLen[Head(parts)] + SumLen(Tail(parts))

\* len("\n\n".join(answer_parts))
JoinedLen(parts) == SumLen(parts) + 2 * (Len(parts) - 1)

\* "\n\n".join(answer_parts), cut to 1000 characters plus "..." if longer
ComposedAnswer(parts) ==
    Answer("composed", parts, JoinedLen(parts) > 1000, << >>, {}, 0)

\* len(", ".join(docs)) for labels of 22 characters
DocsJoinedLen(docs) ==
    IF docs = {} THEN 0 ELSE 22 * Cardinality(docs) + 2 * (Cardinality(docs) - 1)

\* len(answer)
AnswerLen(a) ==
    CASE a.kind = "composed" ->
            IF a.truncated THEN 1003 ELSE JoinedLen(a.parts)
      [] a.kind = "below_threshold" -> 269 + DocsJoinedLen(a.docs)
      [] a.kind = "not_found" -> 110
      [] OTHER -> 0

\* answer[:n]
AnswerPrefix(a, n) == [of |-> a, chars |-> Min(n, AnswerLen(a))]

(***************************************************************************)
(* ConversationManager                                                     *)
(***************************************************************************)
\* Variant of get_conversation_history: one history shared by all users.
get_conversation_history_shared(user_email) ==
    IF DOMAIN conversations = {} THEN << >>
    ELSE conversations[CHOOSE u \in DOMAIN conversations :
                          \A v \in DOMAIN conversations :
                              Len(conversations[u]) >= Len(conversations[v])]

\* self.conversations.get(user_email, [])
get_conversation_history(user_email) ==
    IF user_email \in DOMAIN conversations THEN conversations[user_email] ELSE << >>

\* Variant of add_to_conversation: the new turn is put in front.
add_to_conversation_front(user_email, query, answer, context) ==
    [u \in DOMAIN conversations \cup {user_email} |->
        IF u = user_email
        THEN << [query |-> query, answer |-> answer, context |-> context] >>
             \o (IF u \in DOMAIN conversations THEN conversations[u] ELSE << >>)
        ELSE conversations[u]]

\* conversations after add_to_conversation(user_email, query, answer, context)
add_to_conversation(user_email, query, answer, context) ==
    [u \in DOMAIN conversations \cup {user_email} |->
        IF u = user_email
        THEN Append(IF u \in DOMAIN conversations THEN conversations[u] ELSE << >>,
                    [query |-> query, answer |-> answer, context |-> context])
        ELSE conversations[u]]

\* Variant of clear_conversation: the stored list is left as it is.
clear_conversation_kept(user_email) == conversations

\* conversations after clear_conversation(user_email)
clear_conversation(user_email) ==
    IF user_email \in DOMAIN conversations
    THEN [conversations EXCEPT ![user_email] = << >>]
    ELSE conversations

RECURSIVE context_parts(_)
context_parts(recent) ==
    IF recent = << >> THEN << >>
    ELSE << [kind |-> "Previous question", text |-> Head(recent).query],
            [kind |-> "Previous answer", text |-> AnswerPrefix(Head(recent).answer, 200)] >>
         \o context_parts(Tail(recent))

\* The lines of the context string; no lines is the empty string.
build_context_string(user_email, max_entries) ==
    LET history == get_conversation_history(user_email)
    IN  IF history = << >> THEN << >>
        ELSE context_parts(SliceFrom(history, 0 - max_entries))

(***************************************************************************)
(* ConversationalQA.answer_query                                           *)
(***************************************************************************)
CompanyLetters == << "a", "b", "c", "d", "e" >>

CompanyDocs == << DocA, DocB, DocC, DocD, DocE >>

CompanyToken(sep, letter) == << "c", "o", "m", "p", "a", "n", "y", sep, letter >>

\* The literal dict, in insertion order.
company_mapping_literal ==
    [i \in 1..10 |->
        IF i <= 5
        THEN [name |-> CompanyToken("_", CompanyLetters[i]), doc |-> CompanyDocs[i]]
        ELSE [name |-> CompanyToken(" ", CompanyLetters[i - 5]), doc |-> CompanyDocs[i - 5]]]

\* doc_name.replace('_earnings.pdf', '').replace('.pdf', '')
doc_base(doc_name) ==
    CompanyToken("_", CompanyLetters[CHOOSE i \in 1..5 : CompanyDocs[i] = doc_name])

\* mapping[key] = doc on a dict kept as a sequence of items
dict_set(mapping, key, doc) ==
    IF \E i \in 1..Len(mapping) : mapping[i].name = key
    THEN [i \in 1..Len(mapping) |->
            IF mapping[i].name = key THEN [name |-> key, doc |-> doc] ELSE mapping[i]]
    ELSE Append(mapping, [name |-> key, doc |-> doc])

\* The loop over the document filename patterns.
RECURSIVE add_filename_patterns(_, _, _)
add_filename_patterns(mapping, doc_names, query_lower) ==
    IF doc_names = << >> THEN mapping
    ELSE LET doc_name == Head(doc_names)
             next == IF /\ str_contains(doc_base(doc_name), query_lower)
                        /\ ~(\E i \in 1..Len(mapping) : mapping[i].doc = doc_name)
                     THEN dict_set(mapping, doc_base(doc_name), doc_name)
                     ELSE mapping
         IN  add_filename_patterns(next, Tail(doc_names), query_lower)

company_mapping(query_lower) ==
    add_filename_patterns(company_mapping_literal, CompanyDocs, query_lower)

\* Variant of mentioned_companies: the query is matched as typed, not lowered.
mentioned_companies_case_sensitive(query) ==
    LET Mentioned(item) == str_contains(item.name, query)
    IN  SelectSeq(company_mapping(query), Mentioned)

mentioned_companies(query) ==
    LET query_lower == str_lower(query)
        Mentioned(item) == str_contains(item.name, query_lower)
    IN  SelectSeq(company_mapping(query_lower), Mentioned)

unauthorized_mentions(query, allowed_docs) ==
    LET Unauthorized(item) == item.doc \notin allowed_docs
        bad == SelectSeq(mentioned_companies(query), Unauthorized)
    IN  [i \in 1..Len(bad) |-> str_upper(bad[i].name)]

\* Variant of filtered_results: the double-check is missing.
filtered_results_unchecked(search_results, allowed_docs) == search_results

\* The access double-check on the search results.
filtered_results(search_results, allowed_docs) ==
    LET Allowed(r) == r.document \in allowed_docs
    IN  SelectSeq(search_results, Allowed)

\* Variant of high_similarity_results: the earlier threshold 0.35.
high_similarity_results_035(results) ==
    LET High(r) == float_ge(r.similarity, (35 * Scale) \div 100)
    IN  SelectSeq(results, High)

\* The similarity threshold.
high_similarity_results(results) ==
    LET High(r) == float_ge(r.similarity, MIN_SIMILARITY_THRESHOLD)
    IN  SelectSeq(results, High)

make_sources(results) ==
    [i \in 1..Len(results) |->
        [document   |-> results[i].document,
         page       |-> results[i].page,
         similarity |-> format_2f(results[i].similarity)]]

\* "; ".join([s['document'] for s in sources]), as the list of joined labels
join_documents(sources) == [i \in 1..Len(sources) |-> sources[i].document]

\* Variant of compose: one message for every run in which nothing remains.
compose_one_message(search_results, allowed_docs) ==
    LET high == high_similarity_results(filtered_results(search_results, allowed_docs))
        used == SliceTo(high, 3)
    IN  IF high # << >>
        THEN [answer  |-> ComposedAnswer([i \in 1..Len(used) |-> used[i].text]),
              sources |-> make_sources(used)]
        ELSE [answer |-> BelowThresholdAnswer(allowed_docs), sources |-> << >>]

\* Answer and sources built from the final search results.
compose(search_results, allowed_docs) ==
    IF search_results # << >>
    THEN LET high == high_similarity_results(filtered_results(search_results, allowed_docs))
             used == SliceTo(high, 3)
         IN  IF high # << >>
             THEN [answer  |-> ComposedAnswer([i \in 1..Len(used) |-> used[i].text]),
                   sources |-> make_sources(used)]
             ELSE [answer |-> BelowThresholdAnswer(allowed_docs), sources |-> << >>]
    ELSE [answer |-> NotFoundAnswer, sources |-> << >>]

\* self.document_index.search(query=..., top_k=3, allowed_documents=allowed_docs).
\* The index is injected into ConversationalQA; a faulty one ignores the filter.
index_search(text, allowed_docs) ==
    IF stub_index /\ text.context # << >> THEN { << >> }
    ELSE IF faulty_index THEN search(text, 3, NoFilter)
    ELSE search(text, 3, Filter(allowed_docs))

Users == {"alice@email.com", "test2@email.com", "nobody@email.com"}

\* The authorization pre-check of every user and query of the model,
\* evaluated once.
PreCheck ==
    [user_email \in Users |-> [query \in Queries |->
        [mentioned |-> mentioned_companies(query),
         unauthorized |-> unauthorized_mentions(query,
                              get_allowed_documents_set(user_email))]]]

TotalTurns ==
    LET RECURSIVE Sum(_)
        Sum(S) == IF S = {} THEN 0
                  ELSE LET u == CHOOSE x \in S : TRUE
                       IN  Len(conversations[u]) + Sum(S \ {u})
    IN  Sum(DOMAIN conversations)

\* Variant of answer_finish: a run without sources returns before recording.
answer_finish_unrecorded(user_email, query, allowed_docs, search_results, context_used, trace) ==
    LET c == compose(search_results, allowed_docs)
    IN  /\ conversations' =
              IF c.sources = << >> THEN conversations
              ELSE add_to_conversation(user_email, query, c.answer,
                                       join_documents(c.sources))
        /\ result' = [answer |-> c.answer, sources |-> c.sources,
                      context_used |-> context_used]
        /\ searches' = trace

\* The tail of answer_query: compose, record the turn, return.
answer_finish(user_email, query, allowed_docs, search_results, context_used, trace) ==
    LET c == compose(search_results, allowed_docs)
    IN  /\ conversations' =
              add_to_conversation(user_email, query, c.answer, join_documents(c.sources))
        /\ result' = [answer |-> c.answer, sources |-> c.sources,
                      context_used |-> context_used]
        /\ searches' = trace

\* Variant of answer_refuse: the refused query is recorded like any other.
answer_refuse_recorded(user_email, query, mentions, allowed_docs) ==
    /\ result' = [answer |-> RefusalAnswer(mentions, allowed_docs),
                  sources |-> << >>, context_used |-> FALSE]
    /\ searches' = << >>
    /\ conversations' =
          add_to_conversation(user_email, query,
                              RefusalAnswer(mentions, allowed_docs), << >>)

\* The early return of answer_query on an unauthorized mention.
answer_refuse(user_email, query, mentions, allowed_docs) ==
    /\ result' = [answer |-> RefusalAnswer(mentions, allowed_docs),
                  sources |-> << >>, context_used |-> FALSE]
    /\ searches' = << >>
    /\ UNCHANGED conversations

\* Variant of context_fused: use_context alone decides.
context_fused_always(context_string) == TRUE

\* "if context_string:" -- the query is fused only with a non-empty context.
context_fused(context_string) == context_string # << >>

\* Variant of retry_needed: an empty retrieval is final.
retry_never(search_results, context_used) == FALSE

\* "if not search_results and context_used:" -- fall back to the raw query.
retry_needed(search_results, context_used) == search_results = << >> /\ context_used

AnswerQuery ==
    \E user_email \in Users, query \in Queries, use_context \in BOOLEAN :
        LET allowed_docs == get_allowed_documents_set(user_email)
            mentions     == PreCheck[user_email][query].unauthorized
        IN  /\ lastOp' = "answer_query"
            /\ args' = [user_email |-> user_email, query |-> query,
                        use_context |-> use_context]
            /\ UNCHANGED << indexVars, envVars >>
            /\ IF PreCheck[user_email][query].mentioned # << >> /\ mentions # << >>
               THEN answer_refuse(user_email, query, mentions, allowed_docs)
               ELSE /\ TotalTurns < MaxTurns
                    /\ LET context_string ==
                               IF use_context THEN build_context_string(user_email, 3)
                               ELSE << >>
                           fused == use_context /\ context_fused(context_string)
                           enhanced_query == [query |-> query, context |-> context_string]
                       IN  \E first \in index_search(enhanced_query, allowed_docs) :
                             LET call1 == [text |-> enhanced_query, results |-> first]
                             IN  IF retry_needed(first, fused)
                                 THEN \E second \in index_search(RawText(query), allowed_docs) :
                                        answer_finish(user_email, query, allowed_docs,
                                            second, FALSE,
                                            << call1, [text |-> RawText(query),
                                                       results |-> second] >>)
                                 ELSE answer_finish(user_email, query, allowed_docs,
                                          first, fused, << call1 >>)

ClearConversation ==
    \E user_email \in Users :
        /\ conversations' = clear_conversation(user_email)
        /\ lastOp' = "clear_conversation"
        /\ args' = [user_email |-> user_email]
        /\ result' = << >>
        /\ searches' = << >>
        /\ UNCHANGED << indexVars, envVars >>

BuildContextString ==
    \E user_email \in Users, max_entries \in 0..(MaxTurns + 1) :
        /\ lastOp' = "build_context_string"
        /\ args' = [user_email |-> user_email, max_entries |-> max_entries]
        /\ result' = build_context_string(user_email, max_entries)
        /\ searches' = << >>
        /\ UNCHANGED << indexVars, conversations, envVars >>

(***************************************************************************)
(* Specifications.                                                         *)
(***************************************************************************)
InitState ==
    /\ chunks = << >>
    /\ embeddings = EmbNone
    /\ document_map = << >>
    /\ conversations = << >>
    /\ lastOp = "init"
    /\ args = << >>
    /\ result = << >>
    /\ searches = << >>
    /\ appenders = << >>
    /\ ingest = NoIngest
    /\ embedding_model = 0
    /\ models_built = 0
    /\ loaders = << >>

\* The application's wiring: ConversationalQA(document_index).
Init == InitState /\ faulty_index = FALSE /\ stub_index = FALSE

\* A ConversationalQA built on an index whose search ignores the filter.
InitFaulty == InitState /\ faulty_index = TRUE /\ stub_index = FALSE

\* A ConversationalQA built on a stand-in index that finds nothing for a
\* text with fused context and searches the store for a raw text.
InitStub == InitState /\ faulty_index = FALSE /\ stub_index = TRUE

\* The operations the core exposes: ingest, answer, clear_conversation.
Next ==
    \/ AddDocument
    \/ AnswerQuery
    \/ ClearConversation

Spec == Init /\ [][Next]_vars

SpecFaulty == InitFaulty /\ [][Next]_vars

SpecStub == InitStub /\ [][Next]_vars

\* The index on its own: ingestion and direct searches.  A search reads the
\* store and changes nothing, so the stores reached are those of Spec.
NextIndex ==
    \/ AddDocument
    \/ Search

SpecIndex == Init /\ [][NextIndex]_vars

\* The conversation store read directly between the core's operations.
NextConversation ==
    \/ AddDocument
    \/ AnswerQuery
    \/ ClearConversation
    \/ BuildContextString

SpecConversation == Init /\ [][NextConversation]_vars

(***************************************************************************)
(* Properties of DocumentIndex.search (checked under SpecIndex).           *)
(***************************************************************************)
SearchRan == lastOp = "search"

\* The store indices of the chunks whose label is in F.
Pool(F) == {i \in 0..(Len(chunks) - 1) : chunks[i + 1].document \in F}

\* The similarity of chunk i to the text of the last search.
SimOf(i) == Cosine(embeddings.rows[i + 1], encode_query(args.text))

\* C1: a search under a filter F (any set of labels, not "no restriction")
\* returns only chunks whose document label is in F.
C1_SearchOnlyAllowed ==
    (SearchRan /\ ~args.allowed.none) =>
        \A i \in 1..Len(result) : result[i].document \in args.allowed.docs

\* A filtered search returned something although a chunk outside the filter
\* is more similar to the query than a chunk it returned.
C1_Witness ==
    /\ SearchRan /\ ~args.allowed.none /\ result # << >>
    /\ \E i \in 0..(Len(chunks) - 1), j \in 1..Len(result) :
          /\ chunks[i + 1].document \notin args.allowed.docs
          /\ SimOf(i) > result[j].similarity

\* C2: under a filter F and top_k >= 0 the result is the min(top_k, n) most
\* similar chunks of the filtered pool (n = size of the pool): that many
\* distinct pool chunks, each with its content and similarity, and no pool
\* chunk left out is more similar than one returned.
C2_FilterBeforeRanking ==
    (SearchRan /\ ~args.allowed.none) =>
        LET pool == Pool(args.allowed.docs)
            got  == {result[i].chunk_index : i \in 1..Len(result)}
        IN  /\ Len(result) = Min(args.top_k, Cardinality(pool))
            /\ Cardinality(got) = Len(result)
            /\ got \subseteq pool
            /\ \A i \in 1..Len(result) :
                  /\ result[i].text = chunks[result[i].chunk_index + 1].text
                  /\ result[i].page = chunks[result[i].chunk_index + 1].page
                  /\ result[i].chunk_id = chunks[result[i].chunk_index + 1].chunk_id
                  /\ result[i].document = chunks[result[i].chunk_index + 1].document
                  /\ result[i].similarity = SimOf(result[i].chunk_index)
            /\ \A left \in pool \ got : \A kept \in got : SimOf(left) <= SimOf(kept)

\* A filtered search returned top_k >= 1 chunks, one of which is less similar
\* than top_k chunks outside the filter: ranking everything first and cutting
\* to top_k would have crowded it out.
C2_Witness ==
    /\ SearchRan /\ ~args.allowed.none
    /\ args.top_k >= 1 /\ Len(result) = args.top_k
    /\ \E j \in 1..Len(result) :
          Cardinality({i \in 0..(Len(chunks) - 1) :
                          /\ chunks[i + 1].document \notin args.allowed.docs
                          /\ SimOf(i) > result[j].similarity}) >= args.top_k

\* Results in descending order of similarity.
SortedDescending ==
    \A i \in 1..(Len(result) - 1) : result[i].similarity >= result[i + 1].similarity

\* Among results of equal similarity the earlier-inserted chunk comes first.
TiesInInsertionOrder ==
    \A i, j \in 1..Len(result) :
        (i < j /\ result[i].similarity = result[j].similarity)
            => result[i].chunk_index < result[j].chunk_index

\* C3: search results are sorted by descending similarity and, among chunks of
\* equal similarity, the earlier-inserted chunk ranks first, with a filter and
\* with no restriction.
C3_SortedStable == SearchRan => (SortedDescending /\ TiesInInsertionOrder)

\* C4: search returns an empty list whenever the store is empty or the filter
\* is an explicit empty set, for any query and top_k.
C4_EmptyStoreOrFilter ==
    (SearchRan /\ (chunks = << >> \/ (~args.allowed.none /\ args.allowed.docs = {})))
        => result = << >>

\* A search with the empty filter and top_k >= 1 ran on a non-empty store.
C4_Witness ==
    /\ SearchRan /\ ~args.allowed.none /\ args.allowed.docs = {}
    /\ chunks # << >> /\ args.top_k >= 1
    /\ result = << >>

(***************************************************************************)
(* Properties of ConversationalQA.answer_query.                            *)
(***************************************************************************)
AnswerRan == lastOp = "answer_query"

Refused == result.answer.kind = "refusal"

AllowedOf(user_email) ==
    IF user_email \in DOMAIN USER_DOCUMENT_ACCESS
    THEN {USER_DOCUMENT_ACCESS[user_email][i] :
            i \in 1..Len(USER_DOCUMENT_ACCESS[user_email])}
    ELSE {}

\* The query names, in any case, a company or document token ("company_x" or
\* "company x") of a document outside the given set.
MentionsOutside(query, docs) ==
    \E sep \in {"_", " "}, i \in 1..5 :
        /\ str_contains(CompanyToken(sep, CompanyLetters[i]), str_lower(query))
        /\ CompanyDocs[i] \notin docs

\* The query names a company of a document inside the given set.
MentionsInside(query, docs) ==
    \E sep \in {"_", " "}, i \in 1..5 :
        /\ str_contains(CompanyToken(sep, CompanyLetters[i]), str_lower(query))
        /\ CompanyDocs[i] \in docs

HistoryOf(user_email) ==
    IF user_email \in DOMAIN conversations THEN conversations[user_email] ELSE << >>

\* The results the answer was built from: those of the last retrieval.
FinalResults == IF searches = << >> THEN << >> ELSE searches[Len(searches)].results

ClaimedThreshold == (40 * Scale) \div 100

\* C5: answer_query on a query that mentions a company whose document the
\* user may not access returns a refusal with no sources and context_used
\* false, whatever use_context, the history and the other mentions are.
C5_UnauthorizedMentionRefused ==
    (AnswerRan /\ MentionsOutside(args.query, AllowedOf(args.user_email))) =>
        /\ Refused
        /\ result.sources = << >>
        /\ result.context_used = FALSE

\* A user with a recorded turn asked, with use_context on, about a company
\* they may access and one they may not, and was refused.
C5_Witness ==
    /\ AnswerRan /\ args.use_context
    /\ HistoryOf(args.user_email) # << >>
    /\ MentionsOutside(args.query, AllowedOf(args.user_email))
    /\ MentionsInside(args.query, AllowedOf(args.user_email))
    /\ Refused /\ result.sources = << >> /\ ~result.context_used

\* C6: every source returned by answer_query names a document the user may
\* access, even when the index returns chunks outside that set: such a chunk
\* is dropped and the run still ends in an ordinary answer.
C6_SourcesAllowed ==
    AnswerRan =>
        /\ \A i \in 1..Len(result.sources) :
              result.sources[i].document \in AllowedOf(args.user_email)
        /\ result.answer.kind \in {"refusal", "composed", "below_threshold", "not_found"}

\* The index returned a chunk of a document the user may not access next to
\* one they may; the answer has sources.
C6_Witness ==
    /\ AnswerRan /\ result.sources # << >>
    /\ \E i \in 1..Len(FinalResults) :
          FinalResults[i].document \notin AllowedOf(args.user_email)

\* C7: every source comes from a retrieved result whose similarity is at
\* least 0.40, and no result below 0.40 contributes text to the answer.
C7_SourcesAboveThreshold ==
    AnswerRan =>
        /\ \A i \in 1..Len(result.sources) :
              \E j \in 1..Len(FinalResults) :
                  /\ FinalResults[j].similarity >= ClaimedThreshold
                  /\ FinalResults[j].document = result.sources[i].document
                  /\ FinalResults[j].page = result.sources[i].page
                  /\ format_2f(FinalResults[j].similarity) = result.sources[i].similarity
        /\ \A j \in 1..Len(FinalResults) :
              FinalResults[j].similarity < ClaimedThreshold =>
                  \A k \in 1..Len(result.answer.parts) :
                      result.answer.parts[k] # FinalResults[j].text

\* Retrieval returned a chunk above and a chunk below the threshold; only the
\* former is a source.
C7_Witness ==
    /\ AnswerRan /\ result.sources # << >>
    /\ \E j \in 1..Len(FinalResults) : FinalResults[j].similarity < ClaimedThreshold
    /\ Len(result.sources) < Len(FinalResults)

\* The run was not refused and no retrieved result is both allowed and at
\* least as similar as the threshold.
NothingRemains ==
    /\ AnswerRan /\ ~Refused
    /\ ~\E j \in 1..Len(FinalResults) :
          /\ FinalResults[j].document \in AllowedOf(args.user_email)
          /\ FinalResults[j].similarity >= ClaimedThreshold

IsBelowThresholdMessage ==
    /\ result.answer.kind = "below_threshold"
    /\ result.answer.threshold = 40
    /\ result.answer.docs = AllowedOf(args.user_email)

\* C8 as stated: whenever nothing remains (also when retrieval returned
\* nothing) the answer is the threshold message and the sources are empty.
C8_AlwaysThresholdMessage ==
    NothingRemains => (IsBelowThresholdMessage /\ result.sources = << >>)

\* C8 as amended: whenever nothing remains the sources are empty; the answer
\* is the threshold message (threshold and accessible documents) if retrieval
\* returned at least one result, and the generic not-found message if it
\* returned none.
C8_NothingRemains ==
    NothingRemains =>
        /\ result.sources = << >>
        /\ IF FinalResults # << >> THEN IsBelowThresholdMessage
           ELSE result.answer.kind = "not_found"

\* A user with an empty allowed set asked about a non-empty store: retrieval
\* returned nothing.
C8_Witness ==
    /\ NothingRemains /\ chunks # << >>
    /\ AllowedOf(args.user_email) = {}
    /\ FinalResults = << >>
    /\ result.answer.kind = "not_found"

\* Retrieval returned results, all below the threshold.
C8_WitnessBelow ==
    /\ NothingRemains /\ FinalResults # << >>
    /\ IsBelowThresholdMessage

\* C9: every answer_query that is not refused appends exactly one turn to the
\* asking user's history and touches no other history; the turn holds the
\* query as asked, the answer returned and the labels of the returned sources.
C9_TurnRecorded ==
    [][ (lastOp' = "answer_query" /\ result'.answer.kind # "refusal") =>
          LET u == args'.user_email
          IN  /\ DOMAIN conversations' = DOMAIN conversations \cup {u}
              /\ conversations'[u] =
                   Append(HistoryOf(u),
                          [query   |-> args'.query,
                           answer  |-> result'.answer,
                           context |-> [i \in 1..Len(result'.sources) |->
                                          result'.sources[i].document]])
              /\ \A v \in DOMAIN conversations :
                   v # u => conversations'[v] = conversations[v] ]_vars

\* A run that searched with a fused query and found nothing above the
\* threshold recorded the query as asked as the user's second turn.
C9_Witness ==
    /\ AnswerRan /\ ~Refused
    /\ result.context_used /\ result.sources = << >>
    /\ searches[1].text.context # << >>
    /\ Len(HistoryOf(args.user_email)) = 2
    /\ HistoryOf(args.user_email)[2].query = args.query
    /\ HistoryOf(args.user_email)[2].answer = result.answer

\* No recorded turn, and no question quoted in a fused query, is a query
\* that user is refused for.
NoRefusedQueryKept ==
    /\ \A u \in DOMAIN conversations : \A i \in 1..Len(conversations[u]) :
          ~MentionsOutside(conversations[u][i].query, AllowedOf(u))
    /\ AnswerRan =>
          \A i \in 1..Len(searches) : \A j \in 1..Len(searches[i].text.context) :
              searches[i].text.context[j].kind = "Previous question" =>
                  ~MentionsOutside(searches[i].text.context[j].text,
                                   AllowedOf(args.user_email))

\* C10: a refused answer_query leaves every history as it was and performs
\* no retrieval; so no refused query is ever part of a fused context.
C10_RefusalHasNoEffect ==
    /\ [][ (lastOp' = "answer_query" /\ result'.answer.kind = "refusal") =>
             (conversations' = conversations /\ searches' = << >>) ]_vars
    /\ []NoRefusedQueryKept

\* A user with a recorded turn was refused; the turn is still the only one.
C10_Witness ==
    /\ AnswerRan /\ Refused
    /\ searches = << >>
    /\ Len(HistoryOf(args.user_email)) = 1
    /\ ~MentionsOutside(HistoryOf(args.user_email)[1].query, AllowedOf(args.user_email))

(***************************************************************************)
(* Properties of the context fusion and its fallback.                      *)
(***************************************************************************)
\* The indices of the retrieved results that are allowed and at least as
\* similar as the threshold.
KeptOf(results) ==
    {j \in 1..Len(results) :
        /\ results[j].document \in AllowedOf(args.user_email)
        /\ results[j].similarity >= ClaimedThreshold}

\* The answer and the sources are those of the given retrieval: one source
\* and one answer part per kept result, and a message when none is kept.
AnswerReflects(results) ==
    /\ Len(result.sources) = Cardinality(KeptOf(results))
    /\ \A i \in 1..Len(result.sources) :
          \E j \in KeptOf(results) :
              /\ result.sources[i].document = results[j].document
              /\ result.sources[i].page = results[j].page
              /\ result.answer.parts[i] = results[j].text
    /\ result.answer.kind =
          IF KeptOf(results) # {} THEN "composed"
          ELSE IF results # << >> THEN "below_threshold"
          ELSE "not_found"

\* C11: when the retrieval with the fused query returns nothing, retrieval is
\* retried once with the query as asked and context_used is false whatever
\* the retry returns; the answer is built from the results of the retry.
C11_FallbackToRawQuery ==
    (AnswerRan /\ ~Refused /\ searches[1].text.context # << >>
               /\ searches[1].results = << >>) =>
        /\ Len(searches) = 2
        /\ searches[2].text = RawText(args.query)
        /\ ~result.context_used
        /\ AnswerReflects(searches[2].results)

\* The fused query found nothing and the retry with the raw query returned
\* matches, one of which became a source.
C11_Witness ==
    /\ AnswerRan /\ ~Refused /\ Len(searches) = 2
    /\ searches[1].text.context # << >> /\ searches[1].results = << >>
    /\ searches[2].results # << >> /\ result.sources # << >>

\* C12: when the asking user has no history (never asked, or cleared) and
\* use_context is true, answer_query retrieves once, on the query as asked,
\* and returns context_used false.
C12_NoHistoryNoContext ==
    [][ (/\ lastOp' = "answer_query" /\ result'.answer.kind # "refusal"
         /\ args'.use_context
         /\ HistoryOf(args'.user_email) = << >>) =>
            /\ Len(searches') = 1
            /\ searches'[1].text = RawText(args'.query)
            /\ ~result'.context_used ]_vars

\* A user without any recorded turn asked with use_context on: the run
\* retrieved matches with the raw query and recorded the user's only turn.
C12_Witness ==
    /\ AnswerRan /\ ~Refused /\ args.use_context /\ ~result.context_used
    /\ Len(searches) = 1 /\ searches[1].text = RawText(args.query)
    /\ searches[1].results # << >>
    /\ Len(HistoryOf(args.user_email)) = 1

(***************************************************************************)
(* Properties of ConversationManager (checked under SpecConversation).     *)
(***************************************************************************)
\* The user's history after a step.
HistoryAfter(user_email) ==
    IF user_email \in DOMAIN conversations' THEN conversations'[user_email] ELSE << >>

\* C13: build_context_string(u, n) right after clear_conversation(u) returns
\* the empty string for every n, and clear_conversation on a user without
\* history changes nothing and raises nothing.
C13_ClearThenEmptyContext ==
    [][ /\ (/\ lastOp = "clear_conversation"
            /\ lastOp' = "build_context_string"
            /\ args'.user_email = args.user_email) => result' = << >>
        /\ lastOp' = "clear_conversation" =>
              /\ HistoryAfter(args'.user_email) = << >>
              /\ HistoryOf(args'.user_email) = << >> =>
                    conversations' = conversations ]_vars

\* The context of a user whose turns were cleared was read with a positive
\* max_entries while another user still had turns: it is empty.
C13_Witness ==
    /\ lastOp = "build_context_string" /\ args.max_entries >= 1
    /\ args.user_email \in DOMAIN conversations
    /\ conversations[args.user_email] = << >>
    /\ result = << >>
    /\ \E v \in DOMAIN conversations : conversations[v] # << >>

\* The two lines a turn contributes to the context string.
TurnLines(turn) ==
    << [kind |-> "Previous question", text |-> turn.query],
       [kind |-> "Previous answer", text |-> AnswerPrefix(turn.answer, 200)] >>

\* The context string read from the last k turns of a history, oldest first.
LinesOfLast(history, k) ==
    [i \in 1..(2 * k) |->
        TurnLines(history[Len(history) - k + ((i + 1) \div 2)])[2 - (i % 2)]]

\* C14: build_context_string(u, max_entries) is built from exactly the last
\* min(max_entries, len(history)) turns of u's history, in their original
\* order, for every max_entries >= 0 (0 included) and every history length.
C14_LastMinTurns ==
    lastOp = "build_context_string" =>
        result = LinesOfLast(HistoryOf(args.user_email),
                             Min(args.max_entries, Len(HistoryOf(args.user_email))))

(***************************************************************************)
(* Properties of DocumentIndex.add_document.                               *)
(***************************************************************************)
\* The places <<label, position>> of document_map that hold store index i.
PlacesOf(i) ==
    {p \in UNION {{<<d, k>> : k \in 1..Len(document_map[d])} : d \in DOMAIN document_map} :
        document_map[p[1]][p[2]] = i}

\* C15: after any sequence of add_document calls document_map is a partition
\* of the store indices 0..len(chunks)-1 that agrees with the chunks'
\* document field: every index is listed once, under the label of its chunk,
\* and nothing else is listed, also when a label is ingested more than once.
C15_MapPartitionsChunks ==
    /\ \A d \in DOMAIN document_map : \A k \in 1..Len(document_map[d]) :
          /\ document_map[d][k] \in 0..(Len(chunks) - 1)
          /\ chunks[document_map[d][k] + 1].document = d
    /\ \A i \in 0..(Len(chunks) - 1) : Cardinality(PlacesOf(i)) = 1

\* The same file was ingested twice: its label lists two store indices whose
\* chunks have the same chunk_id.
C15_Witness ==
    /\ lastOp = "add_document"
    /\ \E d \in DOMAIN document_map : \E j, k \in 1..Len(document_map[d]) :
          /\ j < k
          /\ chunks[document_map[d][j] + 1].chunk_id =
                chunks[document_map[d][k] + 1].chunk_id

\* Extraction of the source raises: open() fails or some page's
\* extract_text() does.
ExtractionRaises(pdf) ==
    ~pdf.readable \/ \E i \in 1..Len(pdf.pages) : pdf.pages[i].raises

\* C18: when the extraction of a source raises, at whatever page, the source
\* is skipped: add_document returns normally and adds no chunk of it, so the
\* store is as it was and the remaining sources can be ingested.
C18_FailedSourceSkipped ==
    [][ (lastOp' = "add_document" /\ ExtractionRaises(args'.pdf)) =>
            /\ chunks' = chunks
            /\ embeddings' = embeddings
            /\ document_map' = document_map ]_vars

\* C19: a user's history only grows at its end or is reset: every step of
\* every operation, for any user, leaves it unchanged, appends exactly one
\* turn to it, or makes it empty; only answer_query appends and only
\* clear_conversation resets.
C19_AppendOnlyExceptClear ==
    [][ \A u \in Users :
          LET old == HistoryOf(u)
              new == HistoryAfter(u)
          IN  \/ new = old
              \/ /\ Len(new) = Len(old) + 1
                 /\ SubSeq(new, 1, Len(old)) = old
                 /\ lastOp' = "answer_query" /\ args'.user_email = u
              \/ /\ new = << >>
                 /\ lastOp' = "clear_conversation" /\ args'.user_email = u ]_vars

\* A second, different turn was appended behind a user's first turn.
C19_Witness ==
    /\ AnswerRan /\ ~Refused
    /\ Len(HistoryOf(args.user_email)) = 2
    /\ HistoryOf(args.user_email)[1] # HistoryOf(args.user_email)[2]
    /\ HistoryOf(args.user_email)[2].query = args.query

\* Every line comes from a turn of the given history.
OwnLines(lines, history) ==
    \A j \in 1..Len(lines) :
        \E t \in 1..Len(history) :
            IF lines[j].kind = "Previous question"
            THEN lines[j] = TurnLines(history[t])[1]
            ELSE lines[j] = TurnLines(history[t])[2]

IndexError == << [raised |-> "IndexError"] >>

\* The rows of the vector storage, none when it is None.
Rows == IF embeddings.none THEN << >> ELSE embeddings.rows

\* search on a store that add_document may be mutating: when the chunk list
\* is longer than the matrix, similarities[idx] in the filter loop raises
\* for an allowed chunk beyond the last row.
search_unlocked(text, top_k, allowed) ==
    IF chunks = << >> \/ embeddings.none THEN { << >> }
    ELSE IF ~allowed.none /\ Cardinality(allowed.docs) = 0 THEN { << >> }
    ELSE IF /\ ~allowed.none
            /\ \E idx \in Len(Rows)..(Len(chunks) - 1) :
                  chunks[idx + 1].document \in allowed.docs
         THEN { IndexError }
         ELSE search(text, top_k, allowed)

\* add_document up to self.chunks.extend(chunks).
IngestExtend ==
    /\ ingest.pc = "idle"
    /\ \E pdf \in PdfFiles :
          LET text_chunks == extract_text_from_pdf(pdf)
          IN  /\ Len(chunks) + Len(text_chunks) <= MaxChunks
              /\ IF text_chunks = << >>
                 THEN UNCHANGED << chunks, ingest, embedding_model, models_built >>
                 ELSE /\ get_embedding_model
                      /\ chunks' = chunks \o text_chunks
                      /\ ingest' = [pc |-> "extended", pdf |-> pdf,
                                    text_chunks |-> text_chunks,
                                    start_idx |-> Len(chunks)]
              /\ args' = [pdf |-> pdf]
    /\ lastOp' = "add_document"
    /\ result' = << >>
    /\ searches' = << >>
    /\ UNCHANGED << embeddings, document_map, conversations,
                    faulty_index, stub_index, appenders, loaders >>

\* self.embeddings = chunk_embeddings, or np.vstack of the old and new rows.
IngestStack ==
    /\ ingest.pc = "extended"
    /\ embeddings' =
         IF embeddings.none
         THEN [none |-> FALSE, rows |-> create_embeddings(ingest.text_chunks)]
         ELSE [none |-> FALSE,
               rows |-> embeddings.rows \o create_embeddings(ingest.text_chunks)]
    /\ ingest' = [ingest EXCEPT !.pc = "stacked"]
    /\ lastOp' = "add_document"
    /\ args' = [pdf |-> ingest.pdf]
    /\ result' = << >>
    /\ searches' = << >>
    /\ UNCHANGED << chunks, document_map, conversations,
                    faulty_index, stub_index, appenders,
                    embedding_model, models_built, loaders >>

\* The document_map loop over range(start_idx, len(self.chunks)); return.
IngestMap ==
    /\ ingest.pc = "stacked"
    /\ LET doc_name == basename(ingest.pdf.path)
           new_idx  == [i \in 1..(Len(chunks) - ingest.start_idx) |->
                           ingest.start_idx + i - 1]
       IN  document_map' =
             [d \in DOMAIN document_map \cup {doc_name} |->
                 (IF d \in DOMAIN document_map THEN document_map[d] ELSE << >>)
                 \o (IF d = doc_name THEN new_idx ELSE << >>)]
    /\ ingest' = NoIngest
    /\ lastOp' = "add_document"
    /\ args' = [pdf |-> ingest.pdf]
    /\ result' = << >>
    /\ searches' = << >>
    /\ UNCHANGED << chunks, embeddings, conversations,
                    faulty_index, stub_index, appenders,
                    embedding_model, models_built, loaders >>

\* A search by another thread, at any point of the ingestion.
SearchUnlocked ==
    \E q \in Queries, top_k \in 0..MaxTopK,
       allowed \in {NoFilter} \cup {Filter(F) : F \in SUBSET DocLabels} :
        \E res \in search_unlocked(RawText(q), top_k, allowed) :
            /\ lastOp' = "search"
            /\ args' = [text |-> RawText(q), top_k |-> top_k, allowed |-> allowed]
            /\ result' = res
            /\ searches' = << >>
            /\ UNCHANGED << indexVars, conversations, envVars >>

NextIngestRace ==
    \/ IngestExtend
    \/ IngestStack
    \/ IngestMap
    \/ SearchUnlocked

SpecIngestRace == Init /\ [][NextIngestRace]_vars

\* C17: a search that runs while add_document is ingesting never observes a
\* partly updated index: the chunk list and the vector storage it reads have
\* the same length.
C17_SearchSeesWholeUpdate ==
    SearchRan => Len(chunks) = Len(Rows)

(***************************************************************************)
(* add_to_conversation called from several request threads.  The code      *)
(* takes no lock: the membership test, the creation of the list and the    *)
(* append are separate statements, and threads interleave between them.    *)
(***************************************************************************)
\* The turn a thread is about to record: the tail of an answer_query that
\* found nothing.
TurnOf(th) == [query |-> th.query, answer |-> NotFoundAnswer, context |-> << >>]

\* A request thread enters add_to_conversation(user_email, query, answer, context).
AppendCall ==
    /\ Len(appenders) < MaxThreads
    /\ \E user_email \in Users, query \in Queries :
          /\ appenders' = Append(appenders, [pc |-> "check", user_email |-> user_email,
                                              query |-> query])
          /\ args' = [user_email |-> user_email, query |-> query]
    /\ lastOp' = "add_to_conversation"
    /\ result' = << >>
    /\ searches' = << >>
    /\ UNCHANGED << indexVars, conversations, faulty_index, stub_index, ingest,
                        embedding_model, models_built, loaders >>

\* "if user_email not in self.conversations:"
AppendCheck ==
    \E t \in DOMAIN appenders :
        /\ appenders[t].pc = "check"
        /\ appenders' =
              [appenders EXCEPT ![t].pc =
                  IF appenders[t].user_email \in DOMAIN conversations
                  THEN "append" ELSE "create"]
        /\ lastOp' = "add_to_conversation"
        /\ args' = [user_email |-> appenders[t].user_email, query |-> appenders[t].query]
        /\ result' = << >>
        /\ searches' = << >>
        /\ UNCHANGED << indexVars, conversations, faulty_index, stub_index, ingest,
                        embedding_model, models_built, loaders >>

\* "self.conversations[user_email] = []"
AppendCreate ==
    \E t \in DOMAIN appenders :
        /\ appenders[t].pc = "create"
        /\ conversations' =
              [u \in DOMAIN conversations \cup {appenders[t].user_email} |->
                  IF u = appenders[t].user_email THEN << >> ELSE conversations[u]]
        /\ appenders' = [appenders EXCEPT ![t].pc = "append"]
        /\ lastOp' = "add_to_conversation"
        /\ args' = [user_email |-> appenders[t].user_email, query |-> appenders[t].query]
        /\ result' = << >>
        /\ searches' = << >>
        /\ UNCHANGED << indexVars, faulty_index, stub_index, ingest,
                        embedding_model, models_built, loaders >>

\* "self.conversations[user_email].append({...})"; return.
AppendTurn ==
    \E t \in DOMAIN appenders :
        /\ appenders[t].pc = "append"
        /\ conversations' =
              [conversations EXCEPT ![appenders[t].user_email] =
                  Append(@, TurnOf(appenders[t]))]
        /\ appenders' = [appenders EXCEPT ![t].pc = "done"]
        /\ lastOp' = "add_to_conversation"
        /\ args' = [user_email |-> appenders[t].user_email, query |-> appenders[t].query]
        /\ result' = << >>
        /\ searches' = << >>
        /\ UNCHANGED << indexVars, faulty_index, stub_index, ingest,
                        embedding_model, models_built, loaders >>

NextAppendRace ==
    \/ AppendCall
    \/ AppendCheck
    \/ AppendCreate
    \/ AppendTurn

SpecAppendRace == Init /\ [][NextAppendRace]_vars

\* C16: concurrent appends to one user's history behave as if serialized:
\* once every call has returned, the history holds one turn per call, each
\* call's turn among them, also when the user had no entry before.
C16_ConcurrentAppendsKept ==
    (\A t \in DOMAIN appenders : appenders[t].pc = "done") =>
        \A u \in Users :
            /\ Len(HistoryOf(u)) =
                  Cardinality({t \in DOMAIN appenders : appenders[t].user_email = u})
            /\ \A t \in DOMAIN appenders :
                  appenders[t].user_email = u =>
                      \E i \in 1..Len(HistoryOf(u)) : HistoryOf(u)[i] = TurnOf(appenders[t])

(***************************************************************************)
(* The index with an embedding model that can produce a zero vector, for a *)
(* chunk or for the query: the division in search is then 0/0.             *)
(***************************************************************************)
\* add_document of the source whose chunk embeds to the zero vector.
AddDocumentZero ==
    LET text_chunks == extract_text_from_pdf(PdfZero)
    IN  /\ Len(chunks) + Len(text_chunks) <= MaxChunks
        /\ get_embedding_model
        /\ add_document_index(PdfZero, text_chunks)
        /\ lastOp' = "add_document"
        /\ args' = [pdf |-> PdfZero]
        /\ result' = << >>
        /\ searches' = << >>
        /\ UNCHANGED << conversations, faulty_index, stub_index, appenders,
                        ingest, loaders >>

\* search with the query that embeds to the zero vector.
SearchZero ==
    \E top_k \in 0..MaxTopK,
       allowed \in {NoFilter} \cup {Filter(F) : F \in SUBSET DocLabels} :
        \E res \in search(RawText(QZero), top_k, allowed) :
            /\ lastOp' = "search"
            /\ args' = [text |-> RawText(QZero), top_k |-> top_k, allowed |-> allowed]
            /\ result' = res
            /\ searches' = << >>
            /\ UNCHANGED << indexVars, conversations, envVars >>

NextZeroNorm ==
    \/ AddDocument
    \/ AddDocumentZero
    \/ Search
    \/ SearchZero

SpecZeroNorm == Init /\ [][NextZeroNorm]_vars

\* C21: a chunk whose cosine similarity to the query is undefined (the chunk
\* vector or the query vector has norm zero) is excluded from the results of
\* search: it is not in the returned list and takes none of the top_k
\* positions.
C21_UndefinedSimilarityExcluded ==
    SearchRan => \A i \in 1..Len(result) : result[i].similarity # NaN

(***************************************************************************)
(* get_embedding_model called from several threads.  The code takes no     *)
(* lock: the test of the global, the construction of the model and the     *)
(* assignment to the global are separate steps.                            *)
(***************************************************************************)
\* The two call sites of get_embedding_model.
Callers == {"create_embeddings", "search"}

\* A thread enters get_embedding_model().
LoaderCall ==
    /\ Len(loaders) < MaxThreads
    /\ \E caller \in Callers :
          /\ loaders' = Append(loaders, [pc |-> "check", caller |-> caller,
                                          made |-> 0, got |-> 0])
          /\ args' = [caller |-> caller]
    /\ lastOp' = "get_embedding_model"
    /\ result' = << >>
    /\ searches' = << >>
    /\ UNCHANGED << indexVars, conversations, faulty_index, stub_index,
                    appenders, ingest, embedding_model, models_built >>

\* "if _embedding_model is None:"
LoaderCheck ==
    \E t \in DOMAIN loaders :
        /\ loaders[t].pc = "check"
        /\ loaders' = [loaders EXCEPT ![t].pc =
                          IF embedding_model = 0 THEN "construct" ELSE "return"]
        /\ lastOp' = "get_embedding_model"
        /\ args' = [caller |-> loaders[t].caller]
        /\ result' = << >>
        /\ searches' = << >>
        /\ UNCHANGED << indexVars, conversations, faulty_index, stub_index,
                        appenders, ingest, embedding_model, models_built >>

\* SentenceTransformer('all-MiniLM-L6-v2'): a new instance is built.
LoaderConstruct ==
    \E t \in DOMAIN loaders :
        /\ loaders[t].pc = "construct"
        /\ models_built' = models_built + 1
        /\ loaders' = [loaders EXCEPT ![t].pc = "assign",
                                      ![t].made = models_built + 1]
        /\ lastOp' = "get_embedding_model"
        /\ args' = [caller |-> loaders[t].caller]
        /\ result' = << >>
        /\ searches' = << >>
        /\ UNCHANGED << indexVars, conversations, faulty_index, stub_index,
                        appenders, ingest, embedding_model >>

\* "_embedding_model = ...": the new instance is stored in the global.
LoaderAssign ==
    \E t \in DOMAIN loaders :
        /\ loaders[t].pc = "assign"
        /\ embedding_model' = loaders[t].made
        /\ loaders' = [loaders EXCEPT ![t].pc = "return"]
        /\ lastOp' = "get_embedding_model"
        /\ args' = [caller |-> loaders[t].caller]
        /\ result' = << >>
        /\ searches' = << >>
        /\ UNCHANGED << indexVars, conversations, faulty_index, stub_index,
                        appenders, ingest, models_built >>

\* "return _embedding_model": the caller receives what the global holds now.
LoaderReturn ==
    \E t \in DOMAIN loaders :
        /\ loaders[t].pc = "return"
        /\ loaders' = [loaders EXCEPT ![t].pc = "done", ![t].got = embedding_model]
        /\ lastOp' = "get_embedding_model"
        /\ args' = [caller |-> loaders[t].caller]
        /\ result' = << embedding_model >>
        /\ searches' = << >>
        /\ UNCHANGED << indexVars, conversations, faulty_index, stub_index,
                        appenders, ingest, embedding_model, models_built >>

NextModelRace ==
    \/ LoaderCall
    \/ LoaderCheck
    \/ LoaderConstruct
    \/ LoaderAssign
    \/ LoaderReturn

SpecModelRace == Init /\ [][NextModelRace]_vars

\* C22: when several threads call get_embedding_model before the model is
\* initialized, the model is constructed exactly once and every caller
\* receives the same instance.
C22_ModelBuiltOnce ==
    /\ models_built <= 1
    /\ \A t, u \in DOMAIN loaders :
          (loaders[t].pc = "done" /\ loaders[u].pc = "done") =>
              loaders[t].got = loaders[u].got

(***************************************************************************)
(* Retrieval as answer_query uses it, next to direct searches under the    *)
(* same allowed sets.                                                      *)
(***************************************************************************)
\* index.search(query, top_k, allowed_documents=get_allowed_documents_set(user)).
SearchAsUser ==
    \E user_email \in Users, q \in Queries, top_k \in 0..MaxTopK :
        LET allowed == Filter(get_allowed_documents_set(user_email))
        IN  \E res \in search(RawText(q), top_k, allowed) :
              /\ lastOp' = "search"
              /\ args' = [text |-> RawText(q), top_k |-> top_k, allowed |-> allowed]
              /\ result' = res
              /\ searches' = << >>
              /\ UNCHANGED << indexVars, conversations, envVars >>

NextRetrieval ==
    \/ AddDocument
    \/ AnswerQuery
    \/ SearchAsUser

SpecRetrieval == Init /\ [][NextRetrieval]_vars

\* The store indices a search under the filter of the last search may return.
AllowedPool ==
    IF args.allowed.none THEN 0..(Len(chunks) - 1) ELSE Pool(args.allowed.docs)

\* Every retrieval of an answer_query run is empty exactly when the store
\* holds no chunk the user may access, whatever text was searched; a run
\* that took the fallback retry found nothing in the retry either and ends
\* with the generic not-found answer and no sources.
FallbackFindsNothing ==
    (AnswerRan /\ ~Refused) =>
        /\ \A i \in 1..Len(searches) :
              searches[i].results = << >> <=> Pool(AllowedOf(args.user_email)) = {}
        /\ Len(searches) = 2 =>
              /\ searches[2].results = << >>
              /\ result.answer.kind = "not_found"
              /\ result.sources = << >>

\* C23 as stated: for a fixed store and allowed set, search returns an empty
\* list exactly when the store is empty or no stored chunk has a label in the
\* allowed set, whatever the query text is; so a fallback retry of
\* answer_query finds nothing and the run ends with the not-found answer.
C23_EmptyIffNothingAllowed ==
    /\ SearchRan => (result = << >> <=> (chunks = << >> \/ AllowedPool = {}))
    /\ FallbackFindsNothing

\* C23 as amended: search returns an empty list exactly when top_k is 0, the
\* store is empty or no stored chunk has a label in the allowed set, whatever
\* the query text is; answer_query searches with top_k = 3, so a fallback
\* retry finds nothing and the run ends with the not-found answer.
C23_EmptinessIgnoresQuery ==
    /\ SearchRan =>
          (result = << >> <=> (args.top_k = 0 \/ chunks = << >> \/ AllowedPool = {}))
    /\ FallbackFindsNothing

\* A user with a non-empty allowed set asked, with context, about a store
\* that holds only documents of others: the fused query and the retry with
\* the raw query both found nothing.
C23_Witness ==
    /\ AnswerRan /\ ~Refused /\ Len(searches) = 2
    /\ chunks # << >> /\ AllowedOf(args.user_email) # {}
    /\ searches[1].text.context # << >>
    /\ searches[2].text = RawText(args.query)
    /\ result.answer.kind = "not_found"

====
